---- MODULE Spec2Model ----
(***************************************************************************)
(* Model of the quantitative core of llm_stock_screening:                   *)
(*   scoring.py           compute_stock_score                               *)
(*   plot_analysis.py     calculate_metrics, run_and_plot_analysis          *)
(*   generate_scoring.py  score_stocks_in_folder, get_ranked_stocks,        *)
(*                        generate_analysis_plots                           *)
(*   generate_report.py   get_company_description                           *)
(*   goog.py              MomentumDrawdownStrategy.next                     *)
(*                                                                         *)
(* Numbers are exact.  A rational is a pair <<n, d>> in lowest terms with   *)
(* d > 0; the two non-finite floats the code can produce from a division   *)
(* by zero are <<0, 0>> (NaN) and <<-1, 0>> (-inf).  Irrational            *)
(* sub-metrics (a fractional power, a slope over a standard deviation) are *)
(* kept as symbols: a real is q + c * s with q, c rational and s a symbol. *)
(***************************************************************************)
EXTENDS Integers, Sequences, FiniteSets, TLC

VARIABLES df, args, score, stats,
          data, cli, all_scores, top_stocks_data, plots, pc,
          cache, api_key, api_calls, calls,
          feed, params, bar, position_size, issued, buy_price, buy_date,
          highest_since_entry

vars == <<df, args, score, stats,
          data, cli, all_scores, top_stocks_data, plots, pc,
          cache, api_key, api_calls, calls,
          feed, params, bar, position_size, issued, buy_price, buy_date,
          highest_since_entry>>

----------------------------------------------------------------------------
(* Bounds of the explored inputs *)

MaxLen == 4

MaxPrice == 3

Prices == 0..MaxPrice

----------------------------------------------------------------------------
(* Exact arithmetic *)

Abs(a) == IF a < 0 THEN -a ELSE a

RECURSIVE GCD(_, _)
GCD(a, b) == IF b = 0 THEN Abs(a) ELSE GCD(b, a % b)

Rat(n, d) ==
    IF d = 0 THEN <<(IF n < 0 THEN -1 ELSE IF n > 0 THEN 1 ELSE 0), 0>>
    ELSE LET g == GCD(Abs(n), Abs(d))
             s == IF d < 0 THEN -1 ELSE 1
         IN  <<(s * n) \div g, (s * d) \div g>>

Zero == <<0, 1>>

One == <<1, 1>>

NaN == <<0, 0>>

NegInf == <<-1, 0>>

IsFinite(x) == x[2] # 0

RAdd(x, y) == Rat(x[1] * y[2] + y[1] * x[2], x[2] * y[2])

RSub(x, y) == Rat(x[1] * y[2] - y[1] * x[2], x[2] * y[2])

RMul(x, y) == Rat(x[1] * y[1], x[2] * y[2])

RLt(x, y) == x[1] * y[2] < y[1] * x[2]

RLe(x, y) == x[1] * y[2] <= y[1] * x[2]

RECURSIVE IPow(_, _)
IPow(b, e) == IF e = 0 THEN 1 ELSE b * IPow(b, e - 1)

(* a real  q + c * s ; s = NoSym when the value is rational *)
NoSym == [t |-> "none"]

Lin(q, c, s) ==
    IF c = Zero \/ s = NoSym THEN [q |-> q, c |-> Zero, s |-> NoSym]
    ELSE [q |-> q, c |-> c, s |-> s]

Const(q) == Lin(q, Zero, NoSym)

Scale(w, x) == Lin(RMul(w, x.q), RMul(w, x.c), x.s)

----------------------------------------------------------------------------
(* scoring.py *)

(* the weight triples <<ann_return_weight, max_dd_weight,                  *)
(* slope_to_noise_weight>> a caller passes: the defaults of the signature, *)
(* the ones score_stocks_in_folder passes, and two others                  *)
DefaultWeights == <<2, -3, 1>>

PipelineWeights == <<1, -2, 4>>

Weights == {DefaultWeights, PipelineWeights, <<1, 2, 0>>, <<0, -1, 3>>}

TradingDays == 252

AnnFactors == {2, 3, 4, TradingDays}

(* np.log, elementwise: finite for p > 0, -inf for 0, nan for p < 0 (a     *)
(* RuntimeWarning, not an exception)                                       *)
np_log(prices_arr) ==
    [i \in DOMAIN prices_arr |->
        [of |-> prices_arr[i],
         val |-> IF prices_arr[i] > 0 THEN "finite"
                 ELSE IF prices_arr[i] = 0 THEN "-inf" ELSE "nan"]]

(* np.maximum.accumulate *)
SeqMax(s, i) ==
    CHOOSE m \in {s[j] : j \in 1..i} : \A j \in 1..i : s[j] <= m

maximum_accumulate(prices_arr) ==
    [i \in DOMAIN prices_arr |-> SeqMax(prices_arr, i)]

(* np.max over a sequence of rationals *)
RECURSIVE np_max(_, _)
np_max(s, i) ==
    IF i = 1 THEN s[1]
    ELSE LET m == np_max(s, i - 1) IN IF RLt(m, s[i]) THEN s[i] ELSE m

(* the exponent taken over the N - 1 periods between the points *)
ann_return_of_periods(prices_arr, annualization_factor) ==
    LET ratio == Rat(prices_arr[Len(prices_arr)], prices_arr[1])
        expo  == Rat(annualization_factor, Len(prices_arr) - 1)
        growth == IF ratio = One THEN Const(One)
                  ELSE IF expo = One THEN Const(ratio)
                  ELSE Lin(Zero, One, [t |-> "pow", base |-> ratio, exp |-> expo])
    IN  Lin(RSub(growth.q, One), growth.c, growth.s)

(* (prices_arr[-1] / prices_arr[0]) ** (annualization_factor / len) - 1 *)
ann_return_of(prices_arr, annualization_factor) ==
    LET ratio == Rat(prices_arr[Len(prices_arr)], prices_arr[1])
        expo  == Rat(annualization_factor, Len(prices_arr))
        growth == IF ratio = One THEN Const(One)
                  ELSE IF expo = One THEN Const(ratio)
                  ELSE Lin(Zero, One, [t |-> "pow", base |-> ratio, exp |-> expo])
    IN  Lin(RSub(growth.q, One), growth.c, growth.s)

(* the drawdown with the sign of plot_analysis: (prices - peak) / peak *)
max_dd_of_signed(prices_arr) ==
    LET rolling_max == maximum_accumulate(prices_arr)
        drawdowns == [i \in DOMAIN prices_arr |->
                        Rat(prices_arr[i] - rolling_max[i], rolling_max[i])]
    IN  np_max(drawdowns, Len(drawdowns))

(* np.max((rolling_max - prices_arr) / rolling_max) *)
max_dd_of(prices_arr) ==
    LET rolling_max == maximum_accumulate(prices_arr)
        drawdowns == [i \in DOMAIN prices_arr |->
                        Rat(rolling_max[i] - prices_arr[i], rolling_max[i])]
    IN  np_max(drawdowns, Len(drawdowns))

(* the series divided by the gcd of its entries: the trend fit of the log  *)
(* prices is the same up to the intercept                                  *)
RECURSIVE SeqGCD(_, _)
SeqGCD(s, i) == IF i = 0 THEN 0 ELSE GCD(s[i], SeqGCD(s, i - 1))

Normalized(prices_arr) ==
    LET g == SeqGCD(prices_arr, Len(prices_arr))
    IN  [i \in DOMAIN prices_arr |-> prices_arr[i] \div g]

(* sign of model.coef_[0]: the least-squares slope of ln p against          *)
(* x = 0..N-1 is  sum (2x - (N-1)) ln p[x]  over a positive constant, so   *)
(* its sign compares the product of the p[x] ^ (2x - (N-1)) of the upper   *)
(* half with that of the lower half                                        *)
RECURSIVE HalfProduct(_, _, _)
HalfProduct(p, i, upper) ==
    IF i = 0 THEN 1
    ELSE LET k == 2 * (i - 1) - (Len(p) - 1)
             f == IF upper /\ k > 0 THEN IPow(p[i], k)
                  ELSE IF ~upper /\ k < 0 THEN IPow(p[i], -k)
                  ELSE 1
         IN  f * HalfProduct(p, i - 1, upper)

slope_sign(prices_arr) ==
    LET p  == Normalized(prices_arr)
        up == HalfProduct(p, Len(p), TRUE)
        lo == HalfProduct(p, Len(p), FALSE)
    IN  IF up > lo THEN 1 ELSE IF up < lo THEN -1 ELSE 0

(* np.std(residuals) = 0 exactly when every residual is 0, i.e. the log    *)
(* prices lie on a line: p[i]^2 = p[i-1] * p[i+1]                          *)
noise_is_zero(prices_arr) ==
    \A i \in 2..(Len(prices_arr) - 1) :
        prices_arr[i] * prices_arr[i] = prices_arr[i - 1] * prices_arr[i + 1]

(* slope / noise without the test of the noise: 0/0 or x/0 when the log   *)
(* prices lie on a line                                                    *)
slope_to_noise_unguarded(prices_arr) ==
    Lin(Zero, One, [t |-> "stn", of |-> Normalized(prices_arr)])

(* slope / noise if noise != 0 else 0 *)
slope_to_noise_of(prices_arr) ==
    IF ~noise_is_zero(prices_arr)
    THEN IF slope_sign(prices_arr) = 0 THEN Const(Zero)
         ELSE Lin(Zero, One, [t |-> "stn", of |-> Normalized(prices_arr)])
    ELSE Const(Zero)

(* the default max_dd_weight used whatever the caller passed *)
weighted_sum_default_dd(arw, ar, mdw, dd, snw, stn) ==
    LET a == Scale(Rat(arw, 1), ar)
        b == RMul(Rat(DefaultWeights[2], 1), dd)
        c == Scale(Rat(snw, 1), stn)
    IN  [q |-> RAdd(RAdd(a.q, b), c.q),
         c1 |-> a.c, s1 |-> a.s, c2 |-> c.c, s2 |-> c.s]

(* ann_return_weight * ann_return + max_dd_weight * max_dd +               *)
(* slope_to_noise_weight * slope_to_noise                                  *)
weighted_sum(arw, ar, mdw, dd, snw, stn) ==
    LET a == Scale(Rat(arw, 1), ar)
        b == RMul(Rat(mdw, 1), dd)
        c == Scale(Rat(snw, 1), stn)
    IN  [q |-> RAdd(RAdd(a.q, b), c.q),
         c1 |-> a.c, s1 |-> a.s, c2 |-> c.c, s2 |-> c.s]

(* the length test off by one: a single point is scored *)
not_enough_data_empty_only(prices_arr) == Len(prices_arr) < 1

(* if len(prices_arr) < 2: return -np.inf *)
not_enough_data(prices_arr) == Len(prices_arr) < 2

(* a fit that rejects nan but lets -inf (the log of a zero price) through *)
fit_rejects_nan_only(log_prices) ==
    \E i \in DOMAIN log_prices : log_prices[i].val = "nan"

(* LinearRegression().fit(x, log_prices) validates its target: a -inf or   *)
(* nan log price raises ValueError.  Nothing before the fit raises: numpy  *)
(* divides by zero and takes the log of a non-positive number with a       *)
(* warning                                                                 *)
fit_rejects(log_prices) ==
    \E i \in DOMAIN log_prices : log_prices[i].val # "finite"

compute_stock_score(price_series, ann_return_weight, max_dd_weight, slope_to_noise_weight, annualization_factor) ==
    LET prices_arr == price_series
    IN  IF not_enough_data(prices_arr) THEN [kind |-> "neginf"]
        ELSE
        LET log_prices == np_log(prices_arr)
        IN  IF fit_rejects(log_prices)
            THEN [kind |-> "raise", error |-> "ValueError"]
            ELSE
            LET ann_return == ann_return_of(prices_arr, annualization_factor)
                max_dd == max_dd_of(prices_arr)
                slope_to_noise == slope_to_noise_of(prices_arr)
            IN  [kind |-> "score",
                 value |-> weighted_sum(ann_return_weight, ann_return,
                                        max_dd_weight, max_dd,
                                        slope_to_noise_weight, slope_to_noise),
                 ann_return |-> ann_return,
                 max_dd |-> max_dd,
                 slope_to_noise |-> slope_to_noise]

----------------------------------------------------------------------------
(* plot_analysis.py *)

(* stats['recovery_date'] of a drawdown not recovered; dates are positive  *)
(* day numbers                                                             *)
None == -1

(* the maximum of the whole column instead of the running one *)
cummax_whole(col) == [i \in DOMAIN col |-> SeqMax(col, Len(col))]

(* Series.cummax *)
cummax(col) == [i \in DOMAIN col |-> SeqMax(col, i)]

(* a pct_change that fills the first `periods` rows with 0 *)
pct_change_fill_zero(col, periods) ==
    [i \in DOMAIN col |->
        IF i <= periods THEN Zero
        ELSE LET r == Rat(col[i], col[i - periods])
             IN  IF IsFinite(r) THEN RSub(r, One) ELSE r]

(* Series.pct_change(periods): absent (NaN) for the first `periods` rows *)
pct_change(col, periods) ==
    [i \in DOMAIN col |->
        IF i <= periods THEN NaN
        ELSE LET r == Rat(col[i], col[i - periods])
             IN  IF IsFinite(r) THEN RSub(r, One) ELSE r]

(* Series.min / Series.idxmin skip NaN; the first position of the minimum  *)
(* is kept                                                                 *)
NotNaN(col) == {i \in DOMAIN col : col[i] # NaN}

(* an idxmin that raises on fewer than 2 valid rows *)
idxmin_raises_short(col) == Cardinality(NotNaN(col)) < 2

(* Series.idxmin raises ValueError on an empty or all-NaN column *)
idxmin_raises(col) == NotNaN(col) = {}

(* an idxmin that keeps the last of several equal minima *)
idxmin_pos_last(col) ==
    CHOOSE i \in NotNaN(col) :
        /\ \A j \in NotNaN(col) : RLe(col[i], col[j])
        /\ \A j \in NotNaN(col) : j > i => RLt(col[i], col[j])

(* Series.idxmin: the first row holding the minimum, NaN skipped *)
idxmin_pos(col) ==
    CHOOSE i \in NotNaN(col) :
        /\ \A j \in NotNaN(col) : RLe(col[i], col[j])
        /\ \A j \in NotNaN(col) : j < i => RLt(col[i], col[j])

(* position of a label in the (unique, ascending) index *)
get_loc(index, label) == CHOOSE i \in DOMAIN index : index[i] = label

(* positions of the rows a boolean mask keeps, in order *)
FirstIn(S, i) ==
    CHOOSE k \in S : k >= i /\ \A j \in S : j >= i => k <= j

(* a drawdown measured against the peak of the rows before *)
drawdown_column_prev(Close, Peak) ==
    [i \in DOMAIN Close |->
        IF i = 1 THEN Zero ELSE Rat(Close[i] - Peak[i - 1], Peak[i - 1])]

(* (df['Close'] - df['Peak']) / df['Peak'] *)
drawdown_column(Close, Peak) ==
    [i \in DOMAIN Close |-> Rat(Close[i] - Peak[i], Peak[i])]

(* the last row closing at the peak value: index[-1] *)
peak_date_of_last(d, peak_value) ==
    d.index[CHOOSE i \in DOMAIN d.Close :
                /\ d.Close[i] = peak_value
                /\ \A j \in DOMAIN d.Close : d.Close[j] = peak_value => j <= i]

(* df[df['Close'] == peak_value].index[0] *)
peak_date_of(d, peak_value) ==
    d.index[FirstIn({i \in DOMAIN d.Close : d.Close[i] = peak_value}, 1)]

(* the whole table instead of the rows from the trough on *)
post_trough_rows_all(d, max_drawdown_date) == DOMAIN d.Close

(* df.loc[stats['max_drawdown_date']:] : the rows from that label on *)
post_trough_rows(d, max_drawdown_date) ==
    {i \in DOMAIN d.Close : d.index[i] >= max_drawdown_date}

(* a recovery that needs a close strictly above the peak *)
recovery_rows_strict(d, post_trough, peak_value) ==
    {i \in post_trough : d.Close[i] > peak_value}

(* post_trough_df[post_trough_df['Close'] >= peak_value].index *)
recovery_rows(d, post_trough, peak_value) ==
    {i \in post_trough : d.Close[i] >= peak_value}

(* column assignments that also write the peak over Close *)
assign_columns_over_close(d, Peak, Drawdown) ==
    [index |-> d.index,
     Close |-> Peak,
     Peak |-> Peak,
     Drawdown |-> Drawdown,
     Return_1Y |-> pct_change(Peak, TradingDays),
     Return_2Y |-> pct_change(Peak, 504),
     Return_3Y |-> pct_change(Peak, TradingDays * 3)]

(* df['Peak'] = ..., df['Drawdown'] = ..., df['Return_kY'] = ... : the     *)
(* table passed in, with the five columns added in place                   *)
assign_columns(d, Peak, Drawdown) ==
    [index |-> d.index,
     Close |-> d.Close,
     Peak |-> Peak,
     Drawdown |-> Drawdown,
     Return_1Y |-> pct_change(d.Close, TradingDays),
     Return_2Y |-> pct_change(d.Close, 504),
     Return_3Y |-> pct_change(d.Close, TradingDays * 3)]

calculate_metrics(d) ==
    LET Close == d.Close
        Peak == cummax(Close)
        Drawdown == drawdown_column(Close, Peak)
        out == assign_columns(d, Peak, Drawdown)
    IN  IF idxmin_raises(Drawdown)
        THEN (* idxmin of an empty or all-NaN column *)
             [df |-> out, stats |-> [kind |-> "raise", error |-> "ValueError"]]
        ELSE
        LET max_drawdown_date == d.index[idxmin_pos(Drawdown)]
            max_drawdown_value == Drawdown[idxmin_pos(Drawdown)]
            peak_value == Peak[get_loc(d.index, max_drawdown_date)]
            post_trough == post_trough_rows(d, max_drawdown_date)
            recovery_dates == recovery_rows(d, post_trough, peak_value)
        IN  [df |-> out,
             stats |-> [kind |-> "stats",
                        max_drawdown_date |-> max_drawdown_date,
                        max_drawdown_value |-> max_drawdown_value,
                        peak_date |-> peak_date_of(d, peak_value),
                        recovery_date |->
                            IF Cardinality(recovery_dates) > 0
                            THEN d.index[FirstIn(recovery_dates, 1)]
                            ELSE None]]

----------------------------------------------------------------------------
(* The state: one loaded price table, the Scorer's call on its Close       *)
(* column and the RiskProfiler's call on the table.                        *)

RECURSIVE SeqsOfLen(_, _)
SeqsOfLen(S, n) ==
    IF n = 0 THEN {<<>>}
    ELSE {Append(s, x) : s \in SeqsOfLen(S, n - 1), x \in S}

Scenarios ==
    {<<100, 120, 90, 150>>, <<50, 50, 50, 50>>, <<120, 100, 120, 90>>,
     <<-1>>, <<1, -1>>, <<-2, 1>>, <<2, -1, 3>>}

SeriesSet == UNION {SeqsOfLen(Prices, n) : n \in 0..MaxLen} \cup Scenarios

(* the Date index read by load_data: ascending, daily or weekly *)
FirstDay == 10

DateSteps == {1, 7}

DateIndex(n, step) == [i \in 1..n |-> FirstDay + step * (i - 1)]

NotCalled == [kind |-> "none"]

(* the state of generate_scoring.py's main before it runs: no data folder  *)
(* read, the command line defaults, nothing ranked, nothing plotted        *)
pipelineVars == <<data, cli, all_scores, top_stocks_data, plots, pc>>

PipelineNotRun ==
    /\ data = <<>>
    /\ cli = [min_years |-> 5, top_n |-> 10]
    /\ all_scores = <<>>
    /\ top_stocks_data = <<>>
    /\ plots = {}
    /\ pc = "start"

(* the state of generate_report.py before it runs: an empty cache, no API  *)
(* key read, no description asked for                                      *)
reportVars == <<cache, api_key, api_calls, calls>>

ReportNotRun ==
    /\ cache = <<>>
    /\ api_key = FALSE
    /\ api_calls = 0
    /\ calls = <<>>

(* goog.py before cerebro.run(): no data feed, the default parameters of   *)
(* the strategy and the fields set by __init__                             *)
strategyVars ==
    <<feed, params, bar, position_size, issued, buy_price, buy_date,
      highest_since_entry>>

DefaultParams ==
    [momentum_period |-> 30, min_hold_days |-> 30, max_drawdown |-> Rat(1, 5)]

StrategyNotRun ==
    /\ feed = [index |-> <<>>, Close |-> <<>>]
    /\ params = DefaultParams
    /\ bar = 0
    /\ position_size = 0
    /\ issued = "none"
    /\ buy_price = None
    /\ buy_date = None
    /\ highest_since_entry = None

Init ==
    /\ \E p \in SeriesSet, step \in DateSteps :
          df = [index |-> DateIndex(Len(p), step), Close |-> p]
    /\ args = NotCalled
    /\ score = NotCalled
    /\ stats = NotCalled
    /\ PipelineNotRun
    /\ ReportNotRun
    /\ StrategyNotRun

ComputeScore ==
    /\ score = NotCalled
    /\ \E w \in Weights, af \in AnnFactors :
          /\ args' = [kind |-> "args", w |-> w, af |-> af]
          /\ score' = compute_stock_score(df.Close, w[1], w[2], w[3], af)
    /\ UNCHANGED <<df, stats>>
    /\ UNCHANGED pipelineVars
    /\ UNCHANGED reportVars
    /\ UNCHANGED strategyVars

CalculateMetrics ==
    /\ stats = NotCalled
    /\ df' = calculate_metrics(df).df
    /\ stats' = calculate_metrics(df).stats
    /\ UNCHANGED <<args, score>>
    /\ UNCHANGED pipelineVars
    /\ UNCHANGED reportVars
    /\ UNCHANGED strategyVars

Next == ComputeScore \/ CalculateMetrics

Spec == Init /\ [][Next]_vars

----------------------------------------------------------------------------
(* run_and_plot_analysis on a table of several years: load_data, then      *)
(* calculate_metrics. The tables are long enough for the 1-, 2- and 3-year *)
(* returns to exist; their closes cycle through 1..MaxPrice + 2.           *)

LongLens ==
    {TradingDays + 1, 2 * TradingDays + 1, 3 * TradingDays,
     3 * TradingDays + MaxLen}

LongSeries(n, a, b) == [i \in 1..n |-> 1 + ((a * i + b) % (MaxPrice + 2))]

InitRolling ==
    /\ \E n \in LongLens, a \in 1..MaxPrice, b \in 0..MaxPrice,
          step \in DateSteps :
          df = [index |-> DateIndex(n, step), Close |-> LongSeries(n, a, b)]
    /\ args = NotCalled
    /\ score = NotCalled
    /\ stats = NotCalled
    /\ PipelineNotRun
    /\ ReportNotRun
    /\ StrategyNotRun

NextRolling == CalculateMetrics

SpecRolling == InitRolling /\ [][NextRolling]_vars

----------------------------------------------------------------------------
(* generate_scoring.py *)

(* the most CSV files in the data folder *)
MaxFiles == 3

(* the date of the last row of every price file, as a day number *)
LastDay == 3000

(* the CSV files a data folder can hold.  Dates are ascending day numbers. *)
(* The closes of the scored window are chosen so that the score is a       *)
(* rational number (first close = last close, no trend), which the ranking *)
(* can order exactly.                                                      *)
PriceFiles ==
    {[index |-> <<>>, Close |-> <<>>],
     [index |-> <<LastDay>>, Close |-> <<2>>],
     [index |-> <<1000, LastDay>>, Close |-> <<2, 2>>],
     [index |-> <<1000, LastDay>>, Close |-> <<0, 0>>],
     [index |-> <<1000, 2000, LastDay>>, Close |-> <<1, 2, 2>>],
     [index |-> <<1000, 2000, 2500, LastDay>>, Close |-> <<3, 2, 1, 2>>],
     [index |-> <<1000, 2000, 2500, LastDay>>, Close |-> <<1, 3, 2, 3>>],
     [index |-> <<1000, 2000, LastDay>>, Close |-> <<1, 0, 2>>]}

(* --min-years and --top of the command line *)
MinYears == {0, 5}

TopNs == {-1, 0, 1, 2, MaxFiles}

(* df.empty or (df.index.max() - df.index.min()).days < required_days,     *)
(* with required_days = min_years_history * 365.25                         *)
history_too_short(d, min_years_history) ==
    \/ Len(d.index) = 0
    \/ 4 * (d.index[Len(d.index)] - d.index[1]) < 1461 * min_years_history

(* end_date - pd.DateOffset(years=5): five calendar years holding one      *)
(* leap day                                                                *)
FiveYears == 5 * 365 + 1

(* df.loc[start_date:]['Close'] : the closes of the rows from start_date on *)
scoring_window(d) ==
    LET end_date == d.index[Len(d.index)]
        start_date == end_date - FiveYears
        kept == {i \in DOMAIN d.index : d.index[i] >= start_date}
    IN  SubSeq(d.Close, Len(d.index) - Cardinality(kept) + 1, Len(d.index))

(* the float a score is: -inf, or the rational value *)
score_float(r) == IF r.kind = "neginf" THEN NegInf ELSE r.value.q

(* scores[ticker] = score : a dict keeps the position of a key it holds *)
dict_set(scores, ticker, value) ==
    IF \E i \in DOMAIN scores : scores[i][1] = ticker
    THEN [i \in DOMAIN scores |->
            IF scores[i][1] = ticker THEN <<ticker, value>> ELSE scores[i]]
    ELSE Append(scores, <<ticker, value>>)

(* the loop of score_stocks_in_folder over the first n files, in file name *)
(* order; the ticker of the i-th file is i.  A file is skipped when its    *)
(* history is too short or its window is empty, and an exception raised by *)
(* compute_stock_score is caught and the file left out                     *)
RECURSIVE score_stocks_in_folder(_, _, _)
score_stocks_in_folder(data_folder, n, min_years_history) ==
    IF n = 0 THEN <<>>
    ELSE
    LET scores == score_stocks_in_folder(data_folder, n - 1, min_years_history)
        d == data_folder[n]
    IN  IF history_too_short(d, min_years_history) THEN scores
        ELSE IF Len(scoring_window(d)) = 0 THEN scores
        ELSE LET r == compute_stock_score(scoring_window(d),
                                          PipelineWeights[1],
                                          PipelineWeights[2],
                                          PipelineWeights[3], TradingDays)
             IN  IF r.kind = "raise" THEN scores
                 ELSE dict_set(scores, n, score_float(r))

(* an insertion that orders the scores ascending *)
insert_sorted_ascending(sorted, item) ==
    LET k == Cardinality({i \in DOMAIN sorted : ~RLt(item[2], sorted[i][2])})
    IN  SubSeq(sorted, 1, k) \o <<item>> \o SubSeq(sorted, k + 1, Len(sorted))

(* one step of sorted(..., key=lambda item: item[1], reverse=True): the    *)
(* item goes after every item whose score is not smaller (the sort is      *)
(* stable, also with reverse=True)                                         *)
insert_sorted(sorted, item) ==
    LET k == Cardinality({i \in DOMAIN sorted : ~RLt(sorted[i][2], item[2])})
    IN  SubSeq(sorted, 1, k) \o <<item>> \o SubSeq(sorted, k + 1, Len(sorted))

RECURSIVE sorted_by_score(_, _)
sorted_by_score(items, n) ==
    IF n = 0 THEN <<>>
    ELSE insert_sorted(sorted_by_score(items, n - 1), items[n])

(* s[:stop] : a negative stop counts from the end *)
slice_to(s, stop) ==
    IF stop >= 0
    THEN SubSeq(s, 1, IF stop < Len(s) THEN stop ELSE Len(s))
    ELSE SubSeq(s, 1, IF Len(s) + stop > 0 THEN Len(s) + stop ELSE 0)

(* the list get_ranked_stocks builds from the scores *)
get_ranked_stocks(scores, top_n) ==
    IF Len(scores) = 0 THEN <<>>
    ELSE
    LET sorted_scores == sorted_by_score(scores, Len(scores))
        num_to_show == IF top_n < Len(sorted_scores) THEN top_n
                       ELSE Len(sorted_scores)
        top_stocks_with_scores == slice_to(sorted_scores, num_to_show)
    IN  [rank \in 1..Len(top_stocks_with_scores) |->
            [ranking |-> rank,
             ticker |-> top_stocks_with_scores[rank][1],
             score |-> top_stocks_with_scores[rank][2]]]

(* stock_data['figure']: os.path.abspath(output_dir/<ticker>.png) or None *)
figure_path(ticker) == [t |-> "path", png |-> ticker]

NoFigure == [t |-> "None"]

(* run_and_plot_analysis(ticker, output_path): returns without a plot when *)
(* load_data gives None, raises when calculate_metrics raises, and saves   *)
(* the image otherwise                                                     *)
run_and_plot_analysis(found, d) ==
    IF ~found THEN "returned"
    ELSE IF calculate_metrics(d).stats.kind = "raise" THEN "raised"
    ELSE "saved"

(* the try / except of generate_analysis_plots around the call *)
figure_of(outcome, ticker) ==
    IF outcome = "raised" THEN NoFigure ELSE figure_path(ticker)

InitPipeline ==
    /\ df = [index |-> <<>>, Close |-> <<>>]
    /\ args = NotCalled
    /\ score = NotCalled
    /\ stats = NotCalled
    /\ \E n \in 0..MaxFiles : data \in [1..n -> PriceFiles]
    /\ \E min_years \in MinYears, top_n \in TopNs :
          cli = [min_years |-> min_years, top_n |-> top_n]
    /\ all_scores = <<>>
    /\ top_stocks_data = <<>>
    /\ plots = {}
    /\ pc = "start"
    /\ ReportNotRun
    /\ StrategyNotRun

(* top_stocks_data = get_ranked_stocks(min_years, top_n) *)
GetRankedStocks ==
    /\ pc = "start"
    /\ all_scores' = score_stocks_in_folder(data, Len(data), cli.min_years)
    /\ top_stocks_data' = get_ranked_stocks(all_scores', cli.top_n)
    /\ pc' = "ranked"
    /\ UNCHANGED <<df, args, score, stats, data, cli, plots>>
    /\ UNCHANGED reportVars
    /\ UNCHANGED strategyVars

(* if top_stocks_data: generate_analysis_plots(top_stocks_data, outdir).   *)
(* load_data finds and parses the file of a ticker, or does not            *)
GenerateAnalysisPlots ==
    /\ pc = "ranked"
    /\ Len(top_stocks_data) > 0
    /\ \E found \in [DOMAIN top_stocks_data -> BOOLEAN] :
          LET outcome(i) ==
                  run_and_plot_analysis(found[i],
                                        data[top_stocks_data[i].ticker])
          IN  /\ top_stocks_data' =
                    [i \in DOMAIN top_stocks_data |->
                        [ranking |-> top_stocks_data[i].ranking,
                         ticker |-> top_stocks_data[i].ticker,
                         score |-> top_stocks_data[i].score,
                         figure |-> figure_of(outcome(i),
                                              top_stocks_data[i].ticker)]]
              /\ plots' = {figure_path(top_stocks_data[i].ticker) :
                              i \in {j \in DOMAIN top_stocks_data :
                                        outcome(j) = "saved"}}
    /\ pc' = "plotted"
    /\ UNCHANGED <<df, args, score, stats, data, cli, all_scores>>
    /\ UNCHANGED reportVars
    /\ UNCHANGED strategyVars

NextPipeline == GetRankedStocks \/ GenerateAnalysisPlots

SpecPipeline == InitPipeline /\ [][NextPipeline]_vars

----------------------------------------------------------------------------
(* generate_report.py *)

(* the most calls of get_company_description in a run *)
MaxCalls == 3

Tickers == {"AAA", "BBB"}

(* the texts the API can answer with, stripped; the answer to a prompt can *)
(* differ from one call to the next                                        *)
Descriptions == {"", "<p>A</p>", "<p>B</p>"}

(* the prompt: fixed text around the ticker *)
prompt_of(ticker) ==
    <<"As a financial analyst, ... with the stock ticker ", ticker,
      ". Then, provide 3 concise reasons ...">>

(* hashlib.sha256(prompt.encode('utf-8')).hexdigest(): taken to be free of *)
(* collisions, so the digest stands for the prompt it was computed from    *)
sha256(prompt) == [hexdigest |-> prompt]

fallback_description(ticker) ==
    "A description for " \o ticker \o " could not be generated at this time."

(* a store that forgets the description *)
cache_store_dropped(c, prompt_hash, description) == c

(* cache[prompt_hash] = description *)
cache_store(c, prompt_hash, description) ==
    [h \in DOMAIN c \cup {prompt_hash} |->
        IF h = prompt_hash THEN description ELSE c[h]]

(* an except branch that caches the fallback text *)
cache_after_failure_stored(c, prompt_hash, fallback) ==
    cache_store(c, prompt_hash, fallback)

(* except Exception: print(...); return fallback_description : the cache   *)
(* is not written                                                          *)
cache_after_failure(c, prompt_hash, fallback) == c

Returned(value) == [kind |-> "return", value |-> value]

(* the cache file read by main: any earlier answers, or none *)
InitReport ==
    /\ df = [index |-> <<>>, Close |-> <<>>]
    /\ args = NotCalled
    /\ score = NotCalled
    /\ stats = NotCalled
    /\ PipelineNotRun
    /\ \E known \in SUBSET {sha256(prompt_of(t)) : t \in Tickers} :
          cache \in [known -> Descriptions]
    /\ api_key \in BOOLEAN
    /\ api_calls = 0
    /\ calls = <<>>
    /\ StrategyNotRun

(* get_company_description(ticker, cache): the cached text on a hit;       *)
(* otherwise an AssertionError without an API key, and with one a call of  *)
(* the API whose answer is stored and returned, or which fails and leaves  *)
(* the fallback text to return                                             *)
GetCompanyDescription ==
    /\ Len(calls) < MaxCalls
    /\ \E ticker \in Tickers :
          LET prompt_hash == sha256(prompt_of(ticker))
          IN  IF prompt_hash \in DOMAIN cache
              THEN /\ calls' = Append(calls,
                                  [ticker |-> ticker, source |-> "cache",
                                   result |-> Returned(cache[prompt_hash])])
                   /\ UNCHANGED <<cache, api_calls>>
              ELSE IF ~api_key
              THEN /\ calls' = Append(calls,
                                  [ticker |-> ticker, source |-> "assert",
                                   result |-> [kind |-> "raise",
                                               error |-> "AssertionError"]])
                   /\ UNCHANGED <<cache, api_calls>>
              ELSE /\ api_calls' = api_calls + 1
                   /\ \/ \E description \in Descriptions :
                            /\ cache' = cache_store(cache, prompt_hash,
                                                    description)
                            /\ calls' = Append(calls,
                                          [ticker |-> ticker,
                                           source |-> "api",
                                           result |-> Returned(description)])
                      \/ /\ calls' = Append(calls,
                                       [ticker |-> ticker,
                                        source |-> "fallback",
                                        result |-> Returned(
                                            fallback_description(ticker))])
                         /\ cache' = cache_after_failure(
                                         cache, prompt_hash,
                                         fallback_description(ticker))
    /\ UNCHANGED <<df, args, score, stats, api_key>>
    /\ UNCHANGED pipelineVars
    /\ UNCHANGED strategyVars

NextReport == GetCompanyDescription

SpecReport == InitReport /\ [][NextReport]_vars

----------------------------------------------------------------------------
(* goog.py *)

(* the most bars in the data feed *)
MaxBars == 5

(* the days between two bars of a feed: daily, or one bar every 15 days *)
BarSteps == {1, 15}

(* the closes of a bar: positive, with room to rise above a buy price and  *)
(* fall back without going under it                                        *)
BarPrices == 1..(MaxPrice + 1)

(* the parameters a run passes to the strategy: short momentum and holding *)
(* periods, so that feeds of a few bars reach every branch of next()       *)
StrategyParams ==
    {[momentum_period |-> mp, min_hold_days |-> mh,
      max_drawdown |-> DefaultParams.max_drawdown] :
        mp \in {1, 2}, mh \in {2, DefaultParams.min_hold_days}}

(* bt.ind.PercentChange(close, period) at bar t *)
PercentChange(Close, period, t) ==
    Rat(Close[t] - Close[t - period], Close[t - period])

(* the broker at the open of a bar: the market order issued on the bar     *)
(* before is executed with the sizer's stake of 1, unless a buy order is   *)
(* rejected for lack of cash                                               *)
broker_fill(size, order, accepted) ==
    IF order = "buy" /\ accepted THEN size + 1
    ELSE IF order = "sell" THEN size - 1
    ELSE size

(* self.momentum[0] is not None and self.momentum[0] > 0 *)
buy_signal(momentum) == RLt(Zero, momentum)

(* if close > highest_since_entry: highest_since_entry = close *)
new_highest(close, highest) == IF close > highest THEN close ELSE highest

(* a sell allowed on any day once the close is above the buy price *)
may_sell_any_day(days_held, min_hold_days, close, recorded_price) ==
    close > recorded_price

(* days_held >= self.p.min_hold_days and close > self.buy_price *)
may_sell(days_held, min_hold_days, close, recorded_price) ==
    days_held >= min_hold_days /\ close > recorded_price

(* self.momentum[0] < 0 or drawdown < -self.p.max_drawdown *)
sell_signal(momentum, drawdown, max_drawdown) ==
    RLt(momentum, Zero) \/ RLt(drawdown, RSub(Zero, max_drawdown))

InitStrategy ==
    /\ df = [index |-> <<>>, Close |-> <<>>]
    /\ args = NotCalled
    /\ score = NotCalled
    /\ stats = NotCalled
    /\ PipelineNotRun
    /\ ReportNotRun
    /\ \E n \in 0..MaxBars, step \in BarSteps :
          \E closes \in SeqsOfLen(BarPrices, n) :
              feed = [index |-> DateIndex(n, step), Close |-> closes]
    /\ params \in StrategyParams
    /\ bar = 0
    /\ position_size = 0
    /\ issued = "none"
    /\ buy_price = None
    /\ buy_date = None
    /\ highest_since_entry = None

(* one bar of cerebro.run(): the broker executes the pending order, then   *)
(* the strategy's prenext() (nothing) or, once the momentum has its period *)
(* of bars, next()                                                         *)
CerebroBar ==
    /\ bar < Len(feed.Close)
    /\ bar' = bar + 1
    /\ \E accepted \in (IF issued = "buy" THEN BOOLEAN ELSE {TRUE}) :
          position_size' = broker_fill(position_size, issued, accepted)
    /\ LET close == feed.Close[bar']
           date == feed.index[bar']
       IN  IF bar' <= params.momentum_period
           THEN /\ issued' = "none"
                /\ UNCHANGED <<buy_price, buy_date, highest_since_entry>>
           ELSE
           LET momentum == PercentChange(feed.Close, params.momentum_period,
                                         bar')
           IN  IF position_size' = 0
               THEN IF buy_signal(momentum)
                    THEN /\ issued' = "buy"
                         /\ buy_price' = close
                         /\ buy_date' = date
                         /\ highest_since_entry' = close
                    ELSE /\ issued' = "none"
                         /\ UNCHANGED <<buy_price, buy_date,
                                        highest_since_entry>>
               ELSE
               LET highest == new_highest(close, highest_since_entry)
                   drawdown == Rat(close - highest, highest)
                   days_held == date - buy_date
               IN  /\ highest_since_entry' = highest
                   /\ issued' =
                        IF /\ may_sell(days_held, params.min_hold_days,
                                       close, buy_price)
                           /\ sell_signal(momentum, drawdown,
                                          params.max_drawdown)
                        THEN "sell" ELSE "none"
                   /\ UNCHANGED <<buy_price, buy_date>>
    /\ UNCHANGED <<feed, params>>
    /\ UNCHANGED <<df, args, score, stats>>
    /\ UNCHANGED pipelineVars
    /\ UNCHANGED reportVars

NextStrategy == CerebroBar

SpecStrategy == InitStrategy /\ [][NextStrategy]_vars

----------------------------------------------------------------------------
(* Properties of compute_stock_score *)

AllPositive(p) == \A i \in DOMAIN p : p[i] > 0

NonDecreasing(p) == \A i \in 1..(Len(p) - 1) : p[i] <= p[i + 1]

StrictlyIncreasing(p) == \A i \in 1..(Len(p) - 1) : p[i] < p[i + 1]

Scored == score # NotCalled

(* C1: a series of fewer than 2 points (whatever its values, the weights   *)
(* and the annualization factor) gets the sentinel -infinity, not an error *)
C1_ShortSeriesSentinel ==
    (Scored /\ Len(df.Close) < 2) => score = [kind |-> "neginf"]

C1_Witness ==
    /\ score = [kind |-> "neginf"]
    /\ Len(df.Close) = 1
    /\ df.Close[1] > 0
    /\ args.w # DefaultWeights
    /\ args.af # TradingDays

(* C2 as stated: every series holding a price <= 0 is rejected with an     *)
(* error and gets no score                                                 *)
C2_NonPositiveAlwaysRejected ==
    (Scored /\ ~AllPositive(df.Close)) => score.kind = "raise"

(* C2 amended: a series of at least 2 points holding a price <= 0 is       *)
(* rejected with an error raised to the caller and gets no score; a        *)
(* shorter one gets the sentinel -infinity whatever its values             *)
C2_NonPositiveRejectedFromTwoPoints ==
    (Scored /\ ~AllPositive(df.Close)) =>
        /\ Len(df.Close) >= 2 => score.kind = "raise"
        /\ Len(df.Close) < 2 => score.kind = "neginf"

C2_Witness ==
    /\ score.kind = "raise"
    /\ Len(df.Close) = 3
    /\ df.Close[2] = 0
    /\ df.Close[1] > 0 /\ df.Close[3] > 0

(* C3: for N >= 2 positive prices the maximum drawdown is in [0, 1) and is *)
(* 0 exactly when the series is non-decreasing                             *)
C3_MaxDrawdownRange ==
    (Scored /\ Len(df.Close) >= 2 /\ AllPositive(df.Close)) =>
        /\ score.kind = "score"
        /\ RLe(Zero, score.max_dd)
        /\ RLt(score.max_dd, One)
        /\ (score.max_dd = Zero) <=> NonDecreasing(df.Close)

C3_Witness ==
    /\ score.kind = "score"
    /\ Len(df.Close) = 3
    /\ ~NonDecreasing(df.Close)
    /\ score.max_dd = <<2, 3>>

(* the series a scored series p is compared with: the positive series of  *)
(* 2 or 3 points, and p with one inner price changed                       *)
ShortSeries == {r \in SeriesSet : Len(r) \in 2..3 /\ AllPositive(r)}

Repriced(p) ==
    {[p EXCEPT ![i] = v] : i \in 2..(Len(p) - 1), v \in 1..MaxPrice}

SameGrowth(p, r) == p[Len(p)] * r[1] = r[Len(r)] * p[1]

(* a < b for two scores whose irrational parts are the same *)
ScoreLt(a, b) ==
    /\ a.c1 = b.c1 /\ a.s1 = b.s1
    /\ a.c2 = b.c2 /\ a.s2 = b.s2
    /\ RLt(a.q, b.q)

(* the series r, scored with the same arguments, has the same annualized   *)
(* return and slope-to-noise and a larger maximum drawdown                 *)
LargerDrawdownOnly(r) ==
    /\ SameGrowth(df.Close, r)
    /\ ann_return_of(r, args.af) = score.ann_return
    /\ slope_to_noise_of(r) = score.slope_to_noise
    /\ RLt(score.max_dd, max_dd_of(r))

ScoresLower(r) ==
    ScoreLt(compute_stock_score(r, args.w[1], args.w[2], args.w[3], args.af).value,
            score.value)

(* C4: the score is ann_return_weight * annualizedReturn + max_dd_weight * *)
(* maxDrawdown + slope_to_noise_weight * slopeToNoise with the caller's    *)
(* weights and nothing else; with a negative max_dd_weight a series that   *)
(* differs only by a larger maxDrawdown scores strictly lower              *)
C4_WeightedSum ==
    score.kind = "score" =>
        LET w1 == <<args.w[1], 1>>
            w2 == <<args.w[2], 1>>
            w3 == <<args.w[3], 1>>
            ar == score.ann_return
            sn == score.slope_to_noise
        IN  /\ score.value.q =
                  RAdd(RMul(w1, ar.q), RAdd(RMul(w2, score.max_dd), RMul(w3, sn.q)))
            /\ score.value.c1 = RMul(w1, ar.c)
            /\ score.value.c1 # Zero => score.value.s1 = ar.s
            /\ score.value.c2 = RMul(w3, sn.c)
            /\ score.value.c2 # Zero => score.value.s2 = sn.s
            /\ args.w[2] < 0 =>
                  /\ \A r \in ShortSeries :
                        LargerDrawdownOnly(r) => ScoresLower(r)
                  /\ \A r \in Repriced(df.Close) :
                        LargerDrawdownOnly(r) => ScoresLower(r)

C4_Witness ==
    /\ score.kind = "score"
    /\ args.w = PipelineWeights
    /\ score.max_dd = Zero
    /\ Len(df.Close) = 3
    /\ \E r \in ShortSeries : LargerDrawdownOnly(r)
    /\ \E r \in Repriced(df.Close) : LargerDrawdownOnly(r)

(* C5: the annualized return is (last / first) ^ (annualization_factor /   *)
(* N) - 1 with N the number of points; it is last / first - 1 when         *)
(* annualization_factor = N, and [100, 120, 90, 150] with factor 4 gives   *)
(* 0.5 and a maximum drawdown of 0.25                                      *)
C5_AnnualizedReturn ==
    score.kind = "score" =>
        LET N == Len(df.Close)
            first == df.Close[1]
            last == df.Close[N]
        IN  /\ args.af = N => score.ann_return = Const(Rat(last - first, first))
            /\ score.ann_return.s # NoSym =>
                  /\ score.ann_return.s =
                        [t |-> "pow", base |-> Rat(last, first), exp |-> Rat(args.af, N)]
                  /\ score.ann_return.c = One
                  /\ score.ann_return.q = <<-1, 1>>
            /\ (df.Close = <<100, 120, 90, 150>> /\ args.af = 4) =>
                  /\ score.ann_return = Const(<<1, 2>>)
                  /\ score.max_dd = <<1, 4>>

C5_Witness ==
    /\ score.kind = "score"
    /\ df.Close = <<100, 120, 90, 150>>
    /\ args.af = 4
    /\ score.ann_return.q = <<1, 2>>

LogLinear(p) ==
    \A i \in 2..(Len(p) - 1) : p[i] * p[i] = p[i - 1] * p[i + 1]

Constant(p) == \A i \in DOMAIN p : p[i] = p[1]

ZeroScore == [q |-> Zero, c1 |-> Zero, s1 |-> NoSym, c2 |-> Zero, s2 |-> NoSym]

(* C6: a trend fit with zero residual noise is no error and gives          *)
(* slopeToNoise = 0; a constant positive series of length >= 2 has maximum *)
(* drawdown 0, annualized return 0, slopeToNoise 0 and score 0 for any     *)
(* weights                                                                 *)
C6_DegenerateNoise ==
    (Scored /\ Len(df.Close) >= 2 /\ AllPositive(df.Close)) =>
        /\ score.kind = "score"
        /\ LogLinear(df.Close) => score.slope_to_noise = Const(Zero)
        /\ Constant(df.Close) =>
              /\ score.max_dd = Zero
              /\ score.ann_return = Const(Zero)
              /\ score.slope_to_noise = Const(Zero)
              /\ score.value = ZeroScore

C6_Witness ==
    /\ score.kind = "score"
    /\ df.Close = <<50, 50, 50, 50>>
    /\ args.w = PipelineWeights
    /\ score.value = ZeroScore

----------------------------------------------------------------------------
(* Properties of calculate_metrics *)

Profiled == stats.kind = "stats"

(* max(price[0..t]) *)
RunningPeak(p, i) ==
    CHOOSE m \in {p[j] : j \in 1..i} : \A j \in 1..i : p[j] <= m

(* the row of stats['max_drawdown_date'] *)
TroughRow == CHOOSE i \in DOMAIN df.index : df.index[i] = stats.max_drawdown_date

(* C7 as stated: peak_date is the date of the last row at or before the    *)
(* max-drawdown row whose price equals the running peak there              *)
C7_PeakDateIsLastPeakBeforeTrough ==
    (Profiled /\ AllPositive(df.Close)) =>
        LET at_peak == {i \in 1..TroughRow : df.Close[i] = RunningPeak(df.Close, i)}
            last == CHOOSE i \in at_peak : \A j \in at_peak : j <= i
        IN  stats.peak_date = df.index[last]

(* C8 as stated: every Drawdown value is (runningPeak - price) /            *)
(* runningPeak and lies in [0, 1)                                          *)
C8_DrawdownCurveNonNegative ==
    (Profiled /\ AllPositive(df.Close)) =>
        \A i \in DOMAIN df.Close :
            LET peak == RunningPeak(df.Close, i)
            IN  /\ df.Drawdown[i] = Rat(peak - df.Close[i], peak)
                /\ RLe(Zero, df.Drawdown[i])
                /\ RLt(df.Drawdown[i], One)

(* C8 amended: every Drawdown value is (price - runningPeak) / runningPeak *)
(* and lies in (-1, 0] for positive prices                                 *)
C8_DrawdownCurveSigned ==
    (Profiled /\ AllPositive(df.Close)) =>
        \A i \in DOMAIN df.Close :
            LET peak == RunningPeak(df.Close, i)
            IN  /\ df.Drawdown[i] = Rat(df.Close[i] - peak, peak)
                /\ RLt(<<-1, 1>>, df.Drawdown[i])
                /\ RLe(df.Drawdown[i], Zero)

C8_Witness ==
    /\ Profiled
    /\ AllPositive(df.Close)
    /\ Len(df.Close) = 3
    /\ df.Drawdown = <<Zero, <<-1, 3>>, <<-2, 3>>>>

(* C9: recovery_date is the date of the first row at or after the          *)
(* max-drawdown row whose price is >= the running peak at the max-drawdown *)
(* row, and is none exactly when no such row exists                        *)
C9_RecoveryDate ==
    Profiled =>
        LET peak_value == RunningPeak(df.Close, TroughRow)
            reached == {i \in TroughRow..Len(df.Close) : df.Close[i] >= peak_value}
        IN  /\ (stats.recovery_date = None) <=> (reached = {})
            /\ reached # {} =>
                  \E i \in reached :
                      /\ \A j \in reached : i <= j
                      /\ stats.recovery_date = df.index[i]

C9_Witness ==
    /\ Profiled
    /\ df.Close = <<100, 120, 90, 150>>
    /\ stats.max_drawdown_date = df.index[3]
    /\ stats.recovery_date = df.index[4]

(* C10: for ascending dates and positive prices a reported recovery_date   *)
(* is at or after max_drawdown_date, and for a strictly increasing series  *)
(* it is present and equal to max_drawdown_date                            *)
C10_RecoveryNotBeforeTrough ==
    (Profiled /\ AllPositive(df.Close)) =>
        /\ stats.recovery_date # None =>
              stats.recovery_date >= stats.max_drawdown_date
        /\ StrictlyIncreasing(df.Close) =>
              /\ stats.recovery_date # None
              /\ stats.recovery_date = stats.max_drawdown_date

C10_Witness ==
    /\ Profiled
    /\ Len(df.Close) = 3
    /\ AllPositive(df.Close)
    /\ StrictlyIncreasing(df.Close)
    /\ stats.recovery_date = df.index[1]

----------------------------------------------------------------------------
(* Properties of calculate_metrics, continued *)

(* the depth of the fall at row i, from the closes alone *)
Depth(p, i) == Rat(RunningPeak(p, i) - p[i], RunningPeak(p, i))

(* C11: when several rows share the deepest drawdown, max_drawdown_date is *)
(* the earliest of them (every earlier row is strictly shallower, no row   *)
(* is deeper) and max_drawdown_value is the drawdown at that row           *)
C11_EarliestDeepestDrawdown ==
    (Profiled /\ AllPositive(df.Close)) =>
        /\ \A j \in DOMAIN df.Close :
              /\ RLe(Depth(df.Close, j), Depth(df.Close, TroughRow))
              /\ j < TroughRow =>
                    RLt(Depth(df.Close, j), Depth(df.Close, TroughRow))
        /\ stats.max_drawdown_value = df.Drawdown[TroughRow]
        /\ stats.max_drawdown_value =
              RSub(Zero, Depth(df.Close, TroughRow))

C11_Witness ==
    /\ Profiled
    /\ df.Close = <<2, 1, 2, 1>>
    /\ stats.max_drawdown_date = df.index[2]
    /\ stats.max_drawdown_value = Rat(-1, 2)

(* C13 as stated: calculate_metrics fails with an error on every series of *)
(* fewer than 2 points, 0 or 1                                             *)
C13_FewerThanTwoPointsRejected ==
    (stats # NotCalled /\ Len(df.Close) < 2) => stats.kind = "raise"

(* C13 amended: calculate_metrics fails with an error on a series of 0     *)
(* points; a series of 1 point with a positive price is profiled, with the *)
(* drawdown curve <<0>> and the trough, peak and recovery dates all equal  *)
(* to the single date                                                      *)
C13_EmptySeriesRejected ==
    (stats # NotCalled) =>
        /\ Len(df.Close) = 0 => stats.kind = "raise"
        /\ (Len(df.Close) = 1 /\ AllPositive(df.Close)) =>
              /\ stats.kind = "stats"
              /\ df.Drawdown = <<Zero>>
              /\ stats.max_drawdown_value = Zero
              /\ stats.max_drawdown_date = df.index[1]
              /\ stats.peak_date = df.index[1]
              /\ stats.recovery_date = df.index[1]

C13_Witness ==
    /\ Profiled
    /\ Len(df.Close) = 1
    /\ df.Close[1] = 2
    /\ stats.recovery_date = FirstDay

AddedColumns == {"Peak", "Drawdown", "Return_1Y", "Return_2Y", "Return_3Y"}

(* C14 as stated: neither compute_stock_score nor calculate_metrics        *)
(* modifies the table it is given: the caller's table has the same columns *)
(* and values after the call as before                                     *)
C14_InputsNeverModified == [][df' = df]_vars

(* C14 amended: compute_stock_score leaves the table it is given           *)
(* unchanged; calculate_metrics adds the columns Peak, Drawdown,           *)
(* Return_1Y, Return_2Y and Return_3Y to the caller's table in place and   *)
(* leaves its index and its Close column unchanged                         *)
C14_OnlyColumnsAdded ==
    [][/\ df'.index = df.index
       /\ df'.Close = df.Close
       /\ score' # score => df' = df
       /\ stats' # stats =>
             /\ DOMAIN df = {"index", "Close"}
             /\ DOMAIN df' = DOMAIN df \cup AddedColumns]_vars

C14_Witness ==
    /\ Profiled
    /\ score.kind = "score"
    /\ DOMAIN df = {"index", "Close"} \cup AddedColumns
    /\ df.Close = <<2, 1, 3>>
    /\ df.Peak = <<2, 2, 3>>

(* C15: at every row where the price equals the running maximum of the     *)
(* prices up to that row, the Drawdown value is exactly 0                  *)
C15_ZeroAtRunningMaximum ==
    (stats # NotCalled /\ AllPositive(df.Close)) =>
        \A i \in DOMAIN df.Close :
            df.Close[i] = RunningPeak(df.Close, i) => df.Drawdown[i] = Zero

C15_Witness ==
    /\ Profiled
    /\ df.Close = <<1, 2, 1, 3>>
    /\ df.Drawdown[2] = Zero
    /\ df.Drawdown[4] = Zero
    /\ df.Drawdown[3] # Zero

(* C19: on a non-empty positive series with ascending dates, peak_date is  *)
(* not after max_drawdown_date and the price at peak_date equals the       *)
(* running peak at max_drawdown_date                                       *)
C19_PeakNotAfterTrough ==
    (Profiled /\ AllPositive(df.Close) /\ Len(df.Close) > 0) =>
        /\ stats.peak_date <= stats.max_drawdown_date
        /\ \E i \in DOMAIN df.Close :
              /\ df.index[i] = stats.peak_date
              /\ df.Close[i] = RunningPeak(df.Close, TroughRow)

C19_Witness ==
    /\ Profiled
    /\ df.Close = <<1, 3, 2, 3>>
    /\ stats.max_drawdown_date = df.index[3]
    /\ stats.peak_date = df.index[2]

(* df['Return_kY'], k = 1, 2, 3 *)
ReturnColumn(k) ==
    IF k = 1 THEN df.Return_1Y ELSE IF k = 2 THEN df.Return_2Y ELSE df.Return_3Y

(* C12: for each horizon k in 1..3 and each row t (0-based, so row t is    *)
(* position t + 1), the k-year return is absent, never the filler 0, when  *)
(* t < k * 252, and present and equal to price[t] / price[t - k*252] - 1   *)
(* when t >= k * 252                                                       *)
C12_RollingReturns ==
    (stats # NotCalled /\ AllPositive(df.Close)) =>
        \A k \in 1..3 : \A i \in DOMAIN df.Close :
            /\ i - 1 < k * TradingDays =>
                  /\ ReturnColumn(k)[i] = NaN
                  /\ ReturnColumn(k)[i] # Zero
            /\ i - 1 >= k * TradingDays =>
                  /\ ReturnColumn(k)[i] # NaN
                  /\ ReturnColumn(k)[i] =
                        RSub(Rat(df.Close[i], df.Close[i - k * TradingDays]),
                             One)

C12_Witness ==
    /\ stats # NotCalled
    /\ Len(df.Close) > 3 * TradingDays
    /\ df.Return_1Y[TradingDays] = NaN
    /\ df.Return_1Y[TradingDays + 1] \notin {NaN, Zero}
    /\ df.Return_2Y[2 * TradingDays + 1] \notin {NaN, Zero}
    /\ df.Return_3Y[3 * TradingDays] = NaN
    /\ df.Return_3Y[3 * TradingDays + 1] \notin {NaN, Zero}

----------------------------------------------------------------------------
(* Properties of generate_scoring.py *)

Ranked == pc # "start"

(* C16 as stated: no entry of the list returned by get_ranked_stocks has   *)
(* the score -infinity of an unscorable series, whatever the data folder,  *)
(* min_years and top_n                                                     *)
C16_UnscorableNeverRanked ==
    Ranked =>
        \A i \in DOMAIN top_stocks_data : top_stocks_data[i].score # NegInf

ReturnedTickers == {top_stocks_data[i].ticker : i \in DOMAIN top_stocks_data}

(* C17: for a count top_n >= 0, get_ranked_stocks returns exactly          *)
(* min(top_n, number of scored tickers) entries, each a scored ticker with *)
(* its score, no ticker twice; the scores are in non-increasing order;     *)
(* every scored ticker left out has a score <= the lowest returned score;  *)
(* and the 'ranking' fields are 1, 2, ..., k in list order                 *)
C17_TopNRanking ==
    (Ranked /\ cli.top_n >= 0) =>
        /\ Len(top_stocks_data) =
              (IF cli.top_n < Len(all_scores) THEN cli.top_n
               ELSE Len(all_scores))
        /\ \A i \in DOMAIN top_stocks_data :
              /\ top_stocks_data[i].ranking = i
              /\ \E j \in DOMAIN all_scores :
                    all_scores[j] = <<top_stocks_data[i].ticker,
                                      top_stocks_data[i].score>>
              /\ \A j \in DOMAIN top_stocks_data :
                    /\ i < j => RLe(top_stocks_data[j].score,
                                    top_stocks_data[i].score)
                    /\ i # j => top_stocks_data[i].ticker #
                                    top_stocks_data[j].ticker
              /\ \A j \in DOMAIN all_scores :
                    all_scores[j][1] \notin ReturnedTickers =>
                        RLe(all_scores[j][2], top_stocks_data[i].score)

C17_Witness ==
    /\ pc = "ranked"
    /\ cli.top_n = 2
    /\ Len(all_scores) = 3
    /\ Len(top_stocks_data) = 2
    /\ top_stocks_data[1].ticker = 3
    /\ top_stocks_data[1].score = Zero
    /\ top_stocks_data[2].ticker = 1
    /\ top_stocks_data[2].score = Rat(-2, 3)
    /\ all_scores[2] = <<2, Rat(-1, 1)>>

(* C20 as stated: after generate_analysis_plots every ranked entry has a   *)
(* 'figure' field; when it is a path, run_and_plot_analysis saved a plot   *)
(* image at that path; an entry whose plot was not saved (data not loaded  *)
(* or not plotted) has 'figure' = None                                     *)
C20_FigureIsSavedPlot ==
    pc = "plotted" =>
        \A i \in DOMAIN top_stocks_data :
            /\ "figure" \in DOMAIN top_stocks_data[i]
            /\ top_stocks_data[i].figure # NoFigure =>
                  top_stocks_data[i].figure \in plots
            /\ figure_path(top_stocks_data[i].ticker) \notin plots =>
                  top_stocks_data[i].figure = NoFigure

----------------------------------------------------------------------------
(* Properties of generate_report.py *)

(* the call a step makes *)
ThisCall == calls'[Len(calls')]

(* C18: once a call for a ticker has obtained a description from the API,  *)
(* every later call for the same ticker with the same cache returns that   *)
(* same description without an API call; and a call answered from the      *)
(* cache leaves the cache unchanged                                        *)
C18_CachedDescription ==
    [][Len(calls') > Len(calls) =>
        /\ \A i \in DOMAIN calls :
              (calls[i].ticker = ThisCall.ticker /\ calls[i].source = "api") =>
                  /\ ThisCall.result = calls[i].result
                  /\ ThisCall.source = "cache"
                  /\ api_calls' = api_calls
        /\ ThisCall.source = "cache" => cache' = cache]_vars

C18_Witness ==
    /\ Len(calls) = 3
    /\ calls[1] = [ticker |-> "AAA", source |-> "api",
                   result |-> Returned("<p>A</p>")]
    /\ calls[2] = [ticker |-> "BBB", source |-> "api",
                   result |-> Returned("")]
    /\ calls[3] = [ticker |-> "AAA", source |-> "cache",
                   result |-> Returned("<p>A</p>")]
    /\ api_calls = 2

(* the earlier calls made for the ticker of the call a step makes *)
EarlierCalls == {i \in DOMAIN calls : calls[i].ticker = ThisCall.ticker}

(* C21: when the API call fails, get_company_description returns the       *)
(* fallback description and leaves the cache unchanged (the fallback text  *)
(* is not stored), so the next call for the same ticker attempts the API   *)
(* again                                                                   *)
C21_FallbackNotCached ==
    [][Len(calls') > Len(calls) =>
        /\ ThisCall.source = "fallback" =>
              /\ ThisCall.result =
                    Returned(fallback_description(ThisCall.ticker))
              /\ api_calls' = api_calls + 1
              /\ cache' = cache
        /\ \A i \in EarlierCalls :
              (calls[i].source = "fallback" /\ \A j \in EarlierCalls : j <= i) =>
                  /\ ThisCall.source \in {"api", "fallback"}
                  /\ api_calls' = api_calls + 1]_vars

C21_Witness ==
    /\ Len(calls) = 3
    /\ calls[1] = [ticker |-> "AAA", source |-> "fallback",
                   result |-> Returned(fallback_description("AAA"))]
    /\ calls[2].ticker = "BBB"
    /\ calls[3] = [ticker |-> "AAA", source |-> "api",
                   result |-> Returned("<p>B</p>")]
    /\ api_calls = 2
    /\ DOMAIN cache = {sha256(prompt_of(t)) : t \in Tickers}

----------------------------------------------------------------------------
(* Properties of goog.py *)

(* C22: on every bar of every feed, a buy order is issued only when the    *)
(* position size is 0 and the momentum is > 0 (the close is above the      *)
(* close momentum_period bars before); a sell order is issued only when a  *)
(* position is held, at least min_hold_days calendar days have passed      *)
(* since the recorded buy date and the close is strictly above the         *)
(* recorded buy price; and while a position is held, highest_since_entry   *)
(* is >= every close from the buy bar to the current bar                   *)
C22_OrdersAndHighest ==
    /\ issued = "buy" =>
          /\ position_size = 0
          /\ bar > params.momentum_period
          /\ feed.Close[bar] > feed.Close[bar - params.momentum_period]
    /\ issued = "sell" =>
          /\ position_size # 0
          /\ buy_date # None
          /\ feed.index[bar] - buy_date >= params.min_hold_days
          /\ feed.Close[bar] > buy_price
    /\ position_size # 0 =>
          /\ buy_date # None
          /\ \A i \in 1..bar :
                feed.index[i] >= buy_date =>
                    highest_since_entry >= feed.Close[i]

C22_Witness ==
    /\ issued = "sell"
    /\ position_size = 1
    /\ bar = 4
    /\ buy_date = feed.index[2]
    /\ buy_price = 2
    /\ feed.Close = <<1, 2, 4, 3, 3>>
    /\ highest_since_entry = 4
    /\ params.min_hold_days = DefaultParams.min_hold_days

====
